---- MODULE Spec2Model ----
(***************************************************************************)
(* Smart pull (commands/pull): the strategy cascade fetch ->               *)
(* merge --ff-only -> rebase -> merge, the conflict classifier and         *)
(* resolver, and the stash guard.  One invocation of executePull is one    *)
(* behaviour; every awaited command is one step, and the outcome of each   *)
(* command (success or rejection) is chosen by the environment.            *)
(***************************************************************************)
EXTENDS Integers, Sequences, FiniteSets, TLC

VARIABLES
    isDryRun,          \* runConfig.dryRun
    pc,                \* position of executePull
    didStash,          \* const didStash = await stashIfNeeded(...)
    status,            \* stashIfNeeded: const status = await getGitStatusSummary()
    site,              \* which strategy is running / which return site follows
    conflictedFiles,   \* autoResolveConflicts: const conflictedFiles
    fileIdx,           \* autoResolveConflicts: position of the for-of loop
    resolved,          \* autoResolveConflicts: resolved[]
    manual,            \* autoResolveConflicts: manual[]
    observed,          \* result of the last getConflictedFiles() in executePull
    stashRet,          \* value returned by the last applyStashIfNeeded call
    outcome,           \* the PullResult returned, NoResult before the return
    cmds,              \* every command issued so far, with its result
    warnings,          \* logger.warn / logger.error tags emitted
    stashList,         \* repository: entries this invocation has on the stash list
    rebaseInProgress,  \* repository: a rebase is stopped half-way
    mergeInProgress,   \* repository: a merge is stopped half-way
    unmerged,          \* repository: files listed by diff --diff-filter=U
    written,           \* storage: files written by tryResolvePackageJsonConflict
    attempts,          \* every resolveConflict call so far: file and strategy
    cpath,             \* classifier harness: the path handed to canAutoResolve
    cresult,           \* classifier harness: what canAutoResolve returned
    vours,             \* version-bump harness: the "version" of the ours region
    vtheirs,           \* version-bump harness: the "version" of the theirs region
    vresult,           \* version-bump harness: what tryResolvePackageJsonConflict did
    vcontent,          \* version-bump harness: the text storage.readFile returns
    splits,            \* executeSplitCommits: options.splits
    interactive,       \* executeSplitCommits: options.interactive
    splitIndex,        \* executeSplitCommits: the loop variable i (from 1)
    commitMessage,     \* executeSplitCommits: let commitMessage
    review,            \* executeSplitCommits: const review
    splitResult,       \* executeSplitCommits: const result: SplitCommitResult
    answers,           \* terminal: what the user chose, and typed, for each split
    gitCommits         \* repository: the message of every git commit -m issued

vars == <<isDryRun, pc, didStash, status, site, conflictedFiles, fileIdx, resolved,
          manual, observed, stashRet, outcome, cmds, warnings, stashList,
          rebaseInProgress, mergeInProgress, unmerged, written, attempts,
          cpath, cresult, vours, vtheirs, vresult, vcontent,
          splits, interactive, splitIndex, commitMessage, review, splitResult,
          answers, gitCommits>>

\* Largest number of files the unmerged listing holds in one invocation.
MaxFiles == 2

NoResult == [none |-> TRUE]

NoFile == ""

NotClassified == [canResolve |-> FALSE, strategy |-> "none"]

(***************************************************************************)
(* Strings: the regular expressions of AUTO_RESOLVABLE_PATTERNS are        *)
(* anchored literals, i.e. equality, prefix and suffix tests.              *)
(***************************************************************************)
startsWith(s, p) == Len(s) >= Len(p) /\ SubSeq(s, 1, Len(p)) = p

endsWith(s, x) == Len(s) >= Len(x) /\ SubSeq(s, Len(s) - Len(x) + 1, Len(s)) = x

\* /^package-lock\.json$/
packageLock(filename) == filename = "package-lock.json"

\* /^yarn\.lock$/
yarnLock(filename) == filename = "yarn.lock"

\* /^pnpm-lock\.yaml$/
pnpmLock(filename) == filename = "pnpm-lock.yaml"

\* /^dist\//
dist(filename) == startsWith(filename, "dist/")

\* /^coverage\//
coverage(filename) == startsWith(filename, "coverage/")

\* /^node_modules\//
nodeModules(filename) == startsWith(filename, "node_modules/")

\* /\.(js\.map|d\.ts)$/
buildOutput(filename) == endsWith(filename, ".js.map") \/ endsWith(filename, ".d.ts")

\* canAutoResolve with the build-output rule tried before the directory rules.
canAutoResolveBuildOutputFirst(filename) ==
    IF packageLock(filename) THEN [canResolve |-> TRUE, strategy |-> "regenerate-lock"]
    ELSE IF yarnLock(filename) THEN [canResolve |-> TRUE, strategy |-> "regenerate-lock"]
    ELSE IF pnpmLock(filename) THEN [canResolve |-> TRUE, strategy |-> "regenerate-lock"]
    ELSE IF buildOutput(filename) THEN [canResolve |-> TRUE, strategy |-> "take-theirs-regenerate"]
    ELSE IF dist(filename) THEN [canResolve |-> TRUE, strategy |-> "take-theirs-regenerate"]
    ELSE IF coverage(filename) THEN [canResolve |-> TRUE, strategy |-> "take-theirs"]
    ELSE IF nodeModules(filename) THEN [canResolve |-> TRUE, strategy |-> "take-theirs"]
    ELSE [canResolve |-> FALSE, strategy |-> "manual"]

\* canAutoResolve without its last rule, the build-output suffixes.
canAutoResolveNoBuildOutput(filename) ==
    IF packageLock(filename) THEN [canResolve |-> TRUE, strategy |-> "regenerate-lock"]
    ELSE IF yarnLock(filename) THEN [canResolve |-> TRUE, strategy |-> "regenerate-lock"]
    ELSE IF pnpmLock(filename) THEN [canResolve |-> TRUE, strategy |-> "regenerate-lock"]
    ELSE IF dist(filename) THEN [canResolve |-> TRUE, strategy |-> "take-theirs-regenerate"]
    ELSE IF coverage(filename) THEN [canResolve |-> TRUE, strategy |-> "take-theirs"]
    ELSE IF nodeModules(filename) THEN [canResolve |-> TRUE, strategy |-> "take-theirs"]
    ELSE [canResolve |-> FALSE, strategy |-> "manual"]

\* canAutoResolve with the coverage/ and node_modules/ rules taking the dist/ strategy.
canAutoResolveGeneratedAsDist(filename) ==
    IF packageLock(filename) THEN [canResolve |-> TRUE, strategy |-> "regenerate-lock"]
    ELSE IF yarnLock(filename) THEN [canResolve |-> TRUE, strategy |-> "regenerate-lock"]
    ELSE IF pnpmLock(filename) THEN [canResolve |-> TRUE, strategy |-> "regenerate-lock"]
    ELSE IF dist(filename) \/ coverage(filename) \/ nodeModules(filename)
    THEN [canResolve |-> TRUE, strategy |-> "take-theirs-regenerate"]
    ELSE IF buildOutput(filename) THEN [canResolve |-> TRUE, strategy |-> "take-theirs-regenerate"]
    ELSE [canResolve |-> FALSE, strategy |-> "manual"]

canAutoResolve(filename) ==
    IF packageLock(filename) THEN [canResolve |-> TRUE, strategy |-> "regenerate-lock"]
    ELSE IF yarnLock(filename) THEN [canResolve |-> TRUE, strategy |-> "regenerate-lock"]
    ELSE IF pnpmLock(filename) THEN [canResolve |-> TRUE, strategy |-> "regenerate-lock"]
    ELSE IF dist(filename) THEN [canResolve |-> TRUE, strategy |-> "take-theirs-regenerate"]
    ELSE IF coverage(filename) THEN [canResolve |-> TRUE, strategy |-> "take-theirs"]
    ELSE IF nodeModules(filename) THEN [canResolve |-> TRUE, strategy |-> "take-theirs"]
    ELSE IF buildOutput(filename) THEN [canResolve |-> TRUE, strategy |-> "take-theirs-regenerate"]
    ELSE [canResolve |-> FALSE, strategy |-> "manual"]

\* autoResolveConflicts: file === 'package.json' || file.endsWith('/package.json')
isPackageJson(file) == file = "package.json" \/ endsWith(file, "/package.json")

(***************************************************************************)
(* package.json version conflicts.  A file is a sequence of lines; a line  *)
(* is a conflict-start marker "<<<<<<< x", the separator "=======", a      *)
(* conflict-end marker ">>>>>>> x", a "version": "..." line or other text. *)
(* A version is <<major, minor, patch, prerelease>>.                       *)
(***************************************************************************)
NoVersion == <<0, 0, 0, "none">>

Line(kind, ver) == [kind |-> kind, ver |-> ver]

Text == Line("text", NoVersion)

StartMarker == Line("start", NoVersion)

Separator == Line("sep", NoVersion)

EndMarker == Line("end", NoVersion)

VersionLine(ver) == Line("version", ver)

\* Index of the first line of the given kind at or after position from, 0 if none.
indexOf(content, kind, from) ==
    LET S == {i \in from..Len(content) : content[i].kind = kind}
    IN IF S = {} THEN 0 ELSE CHOOSE i \in S : \A j \in S : i <= j

\* content.includes('<<<<<<<') / content.includes('>>>>>>>')
includes(content, kind) == indexOf(content, kind, 1) # 0

NoMatch == [matched |-> FALSE, region |-> <<>>]

\* content.match(/<<<<<<< .*?\n([\s\S]*?)=======\n/)
oursMatch(content) ==
    LET i == indexOf(content, "start", 1)
        j == IF i = 0 THEN 0 ELSE indexOf(content, "sep", i + 1)
    IN IF i = 0 \/ j = 0 THEN NoMatch
       ELSE [matched |-> TRUE, region |-> SubSeq(content, i + 1, j - 1)]

\* content.match(/=======\n([\s\S]*?)>>>>>>> /)
theirsMatch(content) ==
    LET j == indexOf(content, "sep", 1)
        k == IF j = 0 THEN 0 ELSE indexOf(content, "end", j + 1)
    IN IF j = 0 \/ k = 0 THEN NoMatch
       ELSE [matched |-> TRUE, region |-> SubSeq(content, j + 1, k - 1)]

\* part.match(/"version":\s*"([^"]+)"/): the first version of the region
versionPattern(part) ==
    LET i == indexOf(part, "version", 1)
    IN IF i = 0 THEN [matched |-> FALSE, version |-> NoVersion]
       ELSE [matched |-> TRUE, version |-> part[i].ver]

\* version.replace(/-.*$/, '')
stripPrerelease(v) == <<v[1], v[2], v[3], "">>

\* semver.gt on two versions without prerelease
gt(a, b) ==
    \/ a[1] > b[1]
    \/ a[1] = b[1] /\ a[2] > b[2]
    \/ a[1] = b[1] /\ a[2] = b[2] /\ a[3] > b[3]

higher(oursVersion, theirsVersion) ==
    IF gt(stripPrerelease(oursVersion), stripPrerelease(theirsVersion))
    THEN oursVersion ELSE theirsVersion

\* content.replace(/<<<<<<< .*?\n[\s\S]*?=======\n([\s\S]*?)>>>>>>> .*?\n/g, '$1')
RECURSIVE removeMarkers(_, _)
removeMarkers(content, from) ==
    LET i == indexOf(content, "start", from)
        j == IF i = 0 THEN 0 ELSE indexOf(content, "sep", i + 1)
        k == IF j = 0 THEN 0 ELSE indexOf(content, "end", j + 1)
    IN IF k = 0 THEN SubSeq(content, from, Len(content))
       ELSE SubSeq(content, from, i - 1) \o SubSeq(content, j + 1, k - 1)
            \o removeMarkers(content, k + 1)

\* resolvedContent.replace(/"version":\s*"[^"]+"/, `"version": "${higher}"`)
replaceVersion(content, v) ==
    LET i == indexOf(content, "version", 1)
    IN IF i = 0 THEN content ELSE [content EXCEPT ![i] = VersionLine(v)]

\* The file text handed back by storage.readFile when the read is rejected.
Unreadable == <<Line("unreadable", NoVersion)>>

\* tryResolvePackageJsonConflict writing the theirs text before it looks for
\* the two versions.
tryResolvePackageJsonConflictWritesFirst(content, writeOk) ==
    LET ours == oursMatch(content)
        theirs == theirsMatch(content)
        oursVersion == versionPattern(ours.region)
        theirsVersion == versionPattern(theirs.region)
        Fail(e) == [resolved |-> FALSE, error |-> e, wrote |-> FALSE, text |-> <<>>]
    IN IF content = Unreadable THEN Fail("read failed")
       ELSE IF ~includes(content, "start") \/ ~includes(content, "end")
       THEN Fail("Not a conflict file")
       ELSE IF ~ours.matched \/ ~theirs.matched
       THEN Fail("Cannot parse conflict markers")
       ELSE IF ~writeOk THEN Fail("write failed")
       ELSE IF oursVersion.matched /\ theirsVersion.matched
       THEN [resolved |-> TRUE, error |-> "", wrote |-> TRUE,
             text |-> replaceVersion(removeMarkers(content, 1),
                         higher(oursVersion.version, theirsVersion.version))]
       ELSE [resolved |-> FALSE, error |-> "Complex conflict - not just version",
             wrote |-> TRUE, text |-> removeMarkers(content, 1)]

\* tryResolvePackageJsonConflict: the result, and the text written (if any).
tryResolvePackageJsonConflict(content, writeOk) ==
    LET ours == oursMatch(content)
        theirs == theirsMatch(content)
        oursVersion == versionPattern(ours.region)
        theirsVersion == versionPattern(theirs.region)
        Fail(e) == [resolved |-> FALSE, error |-> e, wrote |-> FALSE, text |-> <<>>]
    IN IF content = Unreadable THEN Fail("read failed")
       ELSE IF ~includes(content, "start") \/ ~includes(content, "end")
       THEN Fail("Not a conflict file")
       ELSE IF ~ours.matched \/ ~theirs.matched
       THEN Fail("Cannot parse conflict markers")
       ELSE IF oursVersion.matched /\ theirsVersion.matched
       THEN IF writeOk
            THEN [resolved |-> TRUE, error |-> "", wrote |-> TRUE,
                  text |-> replaceVersion(removeMarkers(content, 1),
                              higher(oursVersion.version, theirsVersion.version))]
            ELSE Fail("write failed")
       ELSE Fail("Complex conflict - not just version")

(***************************************************************************)
(* Inputs of one invocation.                                               *)
(***************************************************************************)
\* Files the unmerged listing may name.
ConflictPaths ==
    {"package-lock.json", "src/app.ts", "package.json", "dist/index.js",
     "dist/package-lock.json", "dist/package.json"}

RECURSIVE SeqsUpTo(_, _)
SeqsUpTo(S, n) ==
    IF n = 0 THEN {<<>>}
    ELSE LET shorter == SeqsUpTo(S, n - 1)
         IN shorter \cup {Append(q, x) : q \in shorter, x \in S}

\* The paths in the order git lists index entries: by byte value.
PathOrder ==
    <<"dist/index.js", "dist/package-lock.json", "dist/package.json",
      "package-lock.json", "package.json", "src/app.ts">>

rank(f) == CHOOSE n \in 1..Len(PathOrder) : PathOrder[n] = f

\* Distinct paths, in the order of the listing.
NoDuplicates(q) == \A i, j \in 1..Len(q) : i < j => rank(q[i]) < rank(q[j])

\* What git diff --name-only --diff-filter=U can list: distinct paths, sorted.
FileLists == {q \in SeqsUpTo(ConflictPaths, MaxFiles) : NoDuplicates(q)}

\* Texts a conflicted package.json may hold.
Contents ==
    { <<Text, StartMarker, VersionLine(<<1, 2, 0, "">>), Separator,
        VersionLine(<<1, 3, 0, "">>), EndMarker, Text>>,
      <<Text, StartMarker, VersionLine(<<1, 3, 0, "beta.1">>), Separator,
        VersionLine(<<1, 3, 0, "">>), EndMarker, Text>>,
      <<Text, StartMarker, Text, Separator, Text, EndMarker>>,
      <<Text, VersionLine(<<1, 2, 0, "">>), Text>>,
      Unreadable }

(***************************************************************************)
(* Sequence helpers.                                                       *)
(***************************************************************************)
Range(q) == {q[i] : i \in 1..Len(q)}

RECURSIVE Without(_, _)
Without(q, x) ==
    IF q = <<>> THEN <<>>
    ELSE IF Head(q) = x THEN Without(Tail(q), x)
    ELSE <<Head(q)>> \o Without(Tail(q), x)

Cmd(cmd, file, ok) == [cmd |-> cmd, file |-> file, ok |-> ok]

(***************************************************************************)
(* The PullResult built at each return site of executePull.                *)
(***************************************************************************)
PullResult(success, hadConflicts, autoResolved, manualRequired, stashApplied, strategy, message) ==
    [success |-> success, hadConflicts |-> hadConflicts,
     autoResolved |-> autoResolved, manualRequired |-> manualRequired,
     stashApplied |-> stashApplied, strategy |-> strategy, message |-> message]

FetchFailedResult(stashed) ==
    PullResult(FALSE, FALSE, <<>>, <<>>, stashed, "failed", "Fetch failed")

FastForwardResult(stashed) ==
    PullResult(TRUE, FALSE, <<>>, <<>>, stashed, "fast-forward",
               "Fast-forward merge successful")

RebaseResult(stashed) ==
    PullResult(TRUE, FALSE, <<>>, <<>>, stashed, "rebase", "Rebase successful")

\* RebaseResolvedResult copied from the conflict-free return: no conflicts, no files.
RebaseResolvedAsPlainRebase(stashed, res) ==
    PullResult(TRUE, FALSE, <<>>, <<>>, stashed, "rebase", "Rebase successful")

RebaseResolvedResult(stashed, res) ==
    PullResult(TRUE, TRUE, res, <<>>, stashed, "rebase",
               "Rebase successful with auto-resolved conflicts")

\* RebasePausedResult reporting stashApplied: didStash like the other return sites.
RebasePausedKeepsDidStash(res, man) ==
    PullResult(FALSE, TRUE, res, man, didStash, "rebase",
               "Rebase paused: files need manual conflict resolution")

RebasePausedResult(res, man) ==
    PullResult(FALSE, TRUE, res, man, FALSE, "rebase",
               "Rebase paused: files need manual conflict resolution")

MergeResult(stashed) ==
    PullResult(TRUE, FALSE, <<>>, <<>>, stashed, "merge", "Merge successful")

MergeResolvedResult(stashed, res) ==
    PullResult(TRUE, TRUE, res, <<>>, stashed, "merge",
               "Merge successful with auto-resolved conflicts")

MergePausedResult(res, man) ==
    PullResult(FALSE, TRUE, res, man, FALSE, "merge",
               "Merge paused: files need manual conflict resolution")

FailedResult ==
    PullResult(FALSE, FALSE, <<>>, <<>>, FALSE, "failed",
               "Pull failed - unable to merge or rebase")

\* The result returned after applyStashIfNeeded, by return site.
\* ResultAfterStash turning a failed stash pop into a failed pull.
ResultAfterStashFailsOnPop(at, stashed, res, applied) ==
    IF stashed /\ ~applied THEN FailedResult
    ELSE CASE at = "fetch" -> FetchFailedResult(stashed)
           [] at = "ff" -> FastForwardResult(stashed)
           [] at = "rebase" -> RebaseResult(stashed)
           [] at = "rebaseResolved" -> RebaseResolvedResult(stashed, res)
           [] at = "merge" -> MergeResult(stashed)
           [] at = "mergeResolved" -> MergeResolvedResult(stashed, res)

\* applied is what applyStashIfNeeded returned there; the code discards it.
ResultAfterStash(at, stashed, res, applied) ==
    CASE at = "fetch" -> FetchFailedResult(stashed)
      [] at = "ff" -> FastForwardResult(stashed)
      [] at = "rebase" -> RebaseResult(stashed)
      [] at = "rebaseResolved" -> RebaseResolvedResult(stashed, res)
      [] at = "merge" -> MergeResult(stashed)
      [] at = "mergeResolved" -> MergeResolvedResult(stashed, res)

(***************************************************************************)
(* State after construction: nothing has run yet.                          *)
(***************************************************************************)
loopVars == <<conflictedFiles, fileIdx, resolved, manual, attempts>>

repoVars == <<stashList, rebaseInProgress, mergeInProgress, unmerged, written>>

harnessVars == <<cpath, cresult, vours, vtheirs, vresult, vcontent>>

splitVars == <<splits, interactive, splitIndex, commitMessage, review, splitResult,
               answers, gitCommits>>

NoReview == [action |-> "none", modifiedMessage |-> ""]

\* const result: SplitCommitResult = { success: false, commitsCreated: 0, ... }
EmptyResult ==
    [success |-> FALSE, commitsCreated |-> 0, commits |-> <<>>, skipped |-> 0,
     error |-> FALSE]

\* The split-commit variables while another operation runs: unused.
SplitIdle ==
    /\ splits = <<>>
    /\ interactive = FALSE
    /\ splitIndex = 1
    /\ commitMessage = ""
    /\ review = NoReview
    /\ splitResult = EmptyResult
    /\ answers = <<>>
    /\ gitCommits = <<>>

\* The status summary before getGitStatusSummary has answered.
NoStatus == [hasUncommittedChanges |-> FALSE, hasUnstagedFiles |-> FALSE]

NotTried == [resolved |-> FALSE, error |-> "", wrote |-> FALSE, text |-> <<>>]

\* The harness variables while executePull runs: unused.
HarnessIdle ==
    /\ cpath = NoFile
    /\ cresult = NotClassified
    /\ vours = NoVersion
    /\ vtheirs = NoVersion
    /\ vresult = NotTried
    /\ vcontent = <<>>

Idle ==
    /\ didStash = FALSE
    /\ status = NoStatus
    /\ site = "none"
    /\ conflictedFiles = <<>>
    /\ fileIdx = 1
    /\ resolved = <<>>
    /\ manual = <<>>
    /\ attempts = <<>>
    /\ observed = <<>>
    /\ stashRet = "not called"
    /\ outcome = NoResult
    /\ cmds = <<>>
    /\ warnings = {}
    /\ stashList = 0
    /\ rebaseInProgress = FALSE
    /\ mergeInProgress = FALSE
    /\ unmerged = <<>>
    /\ written = {}

Init ==
    /\ isDryRun \in BOOLEAN
    /\ pc = "start"
    /\ Idle
    /\ HarnessIdle
    /\ SplitIdle

Issue(cmd, file, ok) == cmds' = Append(cmds, Cmd(cmd, file, ok))

Warn(tag) == warnings' = warnings \cup {tag}

(***************************************************************************)
(* executePull, step by step.                                              *)
(***************************************************************************)
\* const currentBranch = await getCurrentBranch()
GetCurrentBranch ==
    /\ pc = "start"
    /\ \E ok \in BOOLEAN :
        /\ Issue("current-branch", NoFile, ok)
        /\ pc' = IF ok THEN "status" ELSE "raised"
    /\ UNCHANGED <<isDryRun, status, didStash, site, loopVars, observed, stashRet, outcome,
                   warnings, repoVars, harnessVars, splitVars>>

\* The same test, looking at the staged changes only.
hasLocalChangesStagedOnly(st) == st.hasUncommittedChanges

\* stashIfNeeded: status.hasUncommittedChanges || status.hasUnstagedFiles
hasLocalChanges(st) == st.hasUncommittedChanges \/ st.hasUnstagedFiles

\* stashIfNeeded: the status query and the decision to stash
GetGitStatusSummary ==
    /\ pc = "status"
    /\ \E ok, hasUncommittedChanges, hasUnstagedFiles \in BOOLEAN :
        /\ Issue("status", NoFile, ok)
        /\ IF ~ok THEN pc' = "raised" /\ UNCHANGED <<didStash, status>>
           ELSE /\ status' = [hasUncommittedChanges |-> hasUncommittedChanges,
                              hasUnstagedFiles |-> hasUnstagedFiles]
                /\ IF hasLocalChanges(status')
                   THEN IF ~isDryRun
                        THEN pc' = "stashPush" /\ UNCHANGED didStash
                        ELSE pc' = "fetch" /\ didStash' = TRUE
                   ELSE pc' = "fetch" /\ didStash' = FALSE
    /\ UNCHANGED <<isDryRun, site, loopVars, observed, stashRet, outcome,
                   warnings, repoVars, harnessVars, splitVars>>

\* stashIfNeeded: git stash push -m kodrdriv-pull-auto-stash-<now>
StashPush ==
    /\ pc = "stashPush"
    /\ \E ok \in BOOLEAN :
        /\ Issue("stash push", NoFile, ok)
        /\ IF ok
           THEN pc' = "fetch" /\ didStash' = TRUE /\ stashList' = stashList + 1
           ELSE pc' = "raised" /\ UNCHANGED <<didStash, stashList>>
    /\ UNCHANGED <<isDryRun, status, site, loopVars, observed, stashRet, outcome,
                   warnings, rebaseInProgress, mergeInProgress, unmerged, written,
                   harnessVars, splitVars>>

\* afterFetchFailed without the stash restore.
afterFetchFailedNoRestore(stashed) == "done"

\* The fetch catch block: if (didStash) await applyStashIfNeeded(true, ...)
afterFetchFailed(stashed) == IF stashed THEN "applyStash" ELSE "done"

\* Step 2: git fetch remote targetBranch
Fetch ==
    /\ pc = "fetch"
    /\ IF isDryRun
       THEN pc' = "ff" /\ UNCHANGED <<site, outcome, cmds, warnings>>
       ELSE \E ok \in BOOLEAN :
            /\ Issue("fetch", NoFile, ok)
            /\ site' = "fetch"
            /\ IF ok THEN pc' = "ff" /\ UNCHANGED <<outcome, warnings>>
               ELSE /\ Warn("PULL_FETCH_FAILED")
                    /\ pc' = afterFetchFailed(didStash)
                    /\ outcome' = IF pc' = "done" THEN FetchFailedResult(didStash)
                                  ELSE outcome
    /\ UNCHANGED <<isDryRun, status, didStash, loopVars, observed, stashRet, repoVars,
                   harnessVars, splitVars>>

\* afterFastForward without the return: the cascade goes on after a success.
afterFastForwardFallsThrough(ok) == "rebase"

\* Step 3: return after a successful fast-forward, fall into step 4 otherwise
afterFastForward(ok) == IF ok THEN "applyStash" ELSE "rebase"

\* FastForward without the dry-run guard.
FastForwardInDryRun ==
    /\ pc = "ff"
    /\ \E ok \in BOOLEAN :
        /\ Issue("merge --ff-only", NoFile, ok)
        /\ site' = "ff"
        /\ pc' = afterFastForward(ok)
    /\ UNCHANGED <<isDryRun, status, didStash, loopVars, observed, stashRet, outcome,
                   warnings, repoVars, harnessVars, splitVars>>

\* Step 3: git merge --ff-only remote/targetBranch
FastForward ==
    /\ pc = "ff"
    /\ IF isDryRun
       THEN pc' = "rebase" /\ UNCHANGED <<site, cmds>>
       ELSE \E ok \in BOOLEAN :
            /\ Issue("merge --ff-only", NoFile, ok)
            /\ site' = "ff"
            /\ pc' = afterFastForward(ok)
    /\ UNCHANGED <<isDryRun, status, didStash, loopVars, observed, stashRet, outcome,
                   warnings, repoVars, harnessVars, splitVars>>

\* Step 4: git rebase remote/targetBranch
Rebase ==
    /\ pc = "rebase"
    /\ IF isDryRun
       THEN pc' = "merge" /\ UNCHANGED <<site, cmds, rebaseInProgress, unmerged>>
       ELSE \E ok \in BOOLEAN :
            /\ Issue("rebase", NoFile, ok)
            /\ site' = "rebase"
            /\ IF ok
               THEN pc' = "applyStash" /\ UNCHANGED <<rebaseInProgress, unmerged>>
               ELSE /\ pc' = "query"
                    /\ \E left \in FileLists, stopped \in BOOLEAN :
                        /\ unmerged' = left
                        /\ rebaseInProgress' = (left # <<>> \/ stopped)
    /\ UNCHANGED <<isDryRun, status, didStash, loopVars, observed, stashRet, outcome,
                   warnings, stashList, mergeInProgress, written, harnessVars, splitVars>>

\* getConflictedFiles without the catch: the listing is used whatever happened.
getConflictedFilesNoCatch(ok) == unmerged

\* getConflictedFiles(): the listing, or [] when the query is rejected
getConflictedFiles(ok) == IF ok THEN unmerged ELSE <<>>

\* executePull: const conflictedFiles = await getConflictedFiles() after a failed
\* rebase or merge, and the branch on conflictedFiles.length > 0
QueryConflicts ==
    /\ pc = "query"
    /\ \E ok \in BOOLEAN :
        /\ Issue("diff", NoFile, ok)
        /\ observed' = getConflictedFiles(ok)
        /\ pc' = IF Len(observed') > 0 THEN "autoResolve"
                 ELSE IF site = "rebase" THEN "abort" ELSE "failed"
    /\ UNCHANGED <<isDryRun, status, didStash, site, loopVars, stashRet, outcome,
                   warnings, repoVars, harnessVars, splitVars>>

\* RebaseAbort without the empty catch: a failed abort ends the cascade.
RebaseAbortGivesUp ==
    /\ pc = "abort"
    /\ \E ok \in BOOLEAN :
        /\ Issue("rebase --abort", NoFile, ok)
        /\ rebaseInProgress' = IF ok THEN FALSE ELSE rebaseInProgress
        /\ pc' = IF ok THEN "merge" ELSE "failed"
    /\ UNCHANGED <<isDryRun, status, didStash, site, loopVars, observed, stashRet, outcome,
                   warnings, stashList, mergeInProgress, unmerged, written,
                   harnessVars, splitVars>>

\* git rebase --abort, errors ignored
RebaseAbort ==
    /\ pc = "abort"
    /\ \E ok \in BOOLEAN :
        /\ Issue("rebase --abort", NoFile, ok)
        /\ rebaseInProgress' = IF ok THEN FALSE ELSE rebaseInProgress
    /\ pc' = "merge"
    /\ UNCHANGED <<isDryRun, status, didStash, site, loopVars, observed, stashRet, outcome,
                   warnings, stashList, mergeInProgress, unmerged, written,
                   harnessVars, splitVars>>

(***************************************************************************)
(* autoResolveConflicts and resolveConflict.                               *)
(***************************************************************************)
\* autoResolveConflicts: its own getConflictedFiles() and the empty result lists
AutoResolveStart ==
    /\ pc = "autoResolve"
    /\ \E ok \in BOOLEAN :
        /\ Issue("diff", NoFile, ok)
        /\ conflictedFiles' = getConflictedFiles(ok)
    /\ fileIdx' = 1
    /\ resolved' = <<>>
    /\ manual' = <<>>
    /\ pc' = "loop"
    /\ UNCHANGED <<isDryRun, status, didStash, site, attempts, observed, stashRet, outcome,
                   warnings, repoVars, harnessVars, splitVars>>

file == conflictedFiles[fileIdx]

PushResolved == resolved' = Append(resolved, file) /\ UNCHANGED manual

\* PushManual losing the file: it reaches neither list.
PushManualDropsFile == UNCHANGED <<resolved, manual>>

PushManual == manual' = Append(manual, file) /\ UNCHANGED resolved

\* strategyFor without the package.json special case: the classifier decides.
strategyForClassifierOnly(f) == canAutoResolve(f).strategy

\* The strategy autoResolveConflicts hands to resolveConflict, "manual" when it
\* does not call it.
strategyFor(f) ==
    IF isPackageJson(f) THEN "version-bump" ELSE canAutoResolve(f).strategy

\* for (const file of conflictedFiles): classify, and enter resolveConflict
\* (whose dry-run branch reports the file resolved at once)
ForEachFile ==
    /\ pc = "loop"
    /\ IF fileIdx > Len(conflictedFiles)
       THEN pc' = "checkManual"
            /\ UNCHANGED <<fileIdx, resolved, manual, attempts>>
       ELSE IF isPackageJson(file) \/ canAutoResolve(file).canResolve
       THEN /\ attempts' = Append(attempts, [file |-> file, strategy |-> strategyFor(file)])
            /\ IF isDryRun
               THEN PushResolved /\ fileIdx' = fileIdx + 1 /\ pc' = "loop"
               ELSE /\ pc' = IF strategyFor(file) = "version-bump"
                             THEN "versionBump" ELSE "checkout"
                    /\ UNCHANGED <<fileIdx, resolved, manual>>
       ELSE PushManual /\ fileIdx' = fileIdx + 1 /\ pc' = "loop"
            /\ UNCHANGED attempts
    /\ UNCHANGED <<isDryRun, status, didStash, site, conflictedFiles, observed, stashRet,
                   outcome, cmds, warnings, repoVars, harnessVars, splitVars>>

\* CheckoutTheirs going on to stage the file after a failed checkout.
CheckoutTheirsIgnoresFailure ==
    /\ pc = "checkout"
    /\ \E ok \in BOOLEAN : Issue("checkout --theirs", file, ok)
    /\ pc' = "add"
    /\ UNCHANGED <<fileIdx, resolved, manual>>
    /\ UNCHANGED <<isDryRun, status, didStash, site, conflictedFiles, attempts, observed,
                   stashRet, outcome, warnings, repoVars, harnessVars, splitVars>>

\* resolveConflict: git checkout --theirs filepath
CheckoutTheirs ==
    /\ pc = "checkout"
    /\ \E ok \in BOOLEAN :
        /\ Issue("checkout --theirs", file, ok)
        /\ IF ok THEN pc' = "add" /\ UNCHANGED <<fileIdx, resolved, manual>>
           ELSE PushManual /\ fileIdx' = fileIdx + 1 /\ pc' = "loop"
    /\ UNCHANGED <<isDryRun, status, didStash, site, conflictedFiles, attempts, observed,
                   stashRet, outcome, warnings, repoVars, harnessVars, splitVars>>

\* resolveConflict, case 'version-bump': tryResolvePackageJsonConflict
VersionBump ==
    /\ pc = "versionBump"
    /\ \E content \in Contents, writeOk \in BOOLEAN :
        LET result == tryResolvePackageJsonConflict(content, writeOk)
        IN /\ written' = IF result.wrote
                         THEN written \cup {[file |-> file, text |-> result.text]}
                         ELSE written
           /\ IF result.resolved
              THEN pc' = "add" /\ UNCHANGED <<fileIdx, resolved, manual>>
              ELSE PushManual /\ fileIdx' = fileIdx + 1 /\ pc' = "loop"
    /\ UNCHANGED <<isDryRun, status, didStash, site, conflictedFiles, attempts, observed,
                   stashRet, outcome, cmds, warnings, stashList, rebaseInProgress,
                   mergeInProgress, unmerged, harnessVars, splitVars>>

\* resolveConflict: git add filepath, and the push onto resolved[] or manual[]
AddFile ==
    /\ pc = "add"
    /\ \E ok \in BOOLEAN :
        /\ Issue("add", file, ok)
        /\ IF ok
           THEN PushResolved /\ unmerged' = Without(unmerged, file)
           ELSE PushManual /\ UNCHANGED unmerged
    /\ fileIdx' = fileIdx + 1
    /\ pc' = "loop"
    /\ UNCHANGED <<isDryRun, status, didStash, site, conflictedFiles, attempts, observed,
                   stashRet, outcome, warnings, stashList, rebaseInProgress,
                   mergeInProgress, written, harnessVars, splitVars>>

\* CheckManual aborting the rebase or merge before it returns the paused result.
CheckManualAborts ==
    /\ pc = "checkManual"
    /\ IF manual = <<>>
       THEN /\ pc' = IF site = "rebase" THEN "continue" ELSE "commit"
            /\ UNCHANGED <<outcome, warnings, cmds, rebaseInProgress, mergeInProgress>>
       ELSE /\ warnings' = warnings \cup {"PULL_MANUAL_REQUIRED"}
            /\ cmds' = Append(cmds, Cmd(IF site = "rebase" THEN "rebase --abort"
                                        ELSE "merge --abort", NoFile, TRUE))
            /\ rebaseInProgress' = FALSE
            /\ mergeInProgress' = FALSE
            /\ outcome' = IF site = "rebase"
                          THEN RebasePausedResult(resolved, manual)
                          ELSE MergePausedResult(resolved, manual)
            /\ pc' = "done"
    /\ UNCHANGED <<isDryRun, status, didStash, site, loopVars, observed, stashRet,
                   stashList, unmerged, written, harnessVars, splitVars>>

\* executePull: if (manual.length === 0) ... else return the paused result
CheckManual ==
    /\ pc = "checkManual"
    /\ IF manual = <<>>
       THEN /\ pc' = IF site = "rebase" THEN "continue" ELSE "commit"
            /\ UNCHANGED <<outcome, warnings>>
       ELSE /\ Warn("PULL_MANUAL_REQUIRED")
            /\ outcome' = IF site = "rebase"
                          THEN RebasePausedResult(resolved, manual)
                          ELSE MergePausedResult(resolved, manual)
            /\ pc' = "done"
    /\ UNCHANGED <<isDryRun, status, didStash, site, loopVars, observed, stashRet, cmds,
                   repoVars, harnessVars, splitVars>>

\* git rebase --continue
RebaseContinue ==
    /\ pc = "continue"
    /\ \E ok \in BOOLEAN :
        /\ Issue("rebase --continue", NoFile, ok)
        /\ IF ok
           THEN /\ pc' = "regenerate"
                /\ site' = "rebaseResolved"
                /\ rebaseInProgress' = FALSE
                /\ UNCHANGED warnings
           ELSE /\ pc' = "merge"
                /\ Warn("PULL_CONTINUE_FAILED")
                /\ UNCHANGED <<site, rebaseInProgress>>
    /\ UNCHANGED <<isDryRun, status, didStash, loopVars, observed, stashRet, outcome,
                   stashList, mergeInProgress, unmerged, written, harnessVars, splitVars>>

\* git commit -m "Merge remote/targetBranch (auto-resolved by kodrdriv)"
MergeCommit ==
    /\ pc = "commit"
    /\ \E ok \in BOOLEAN :
        /\ Issue("commit", NoFile, ok)
        /\ IF ok
           THEN /\ pc' = "regenerate"
                /\ site' = "mergeResolved"
                /\ mergeInProgress' = FALSE
                /\ UNCHANGED warnings
           ELSE /\ pc' = "failed"
                /\ Warn("PULL_COMMIT_FAILED")
                /\ UNCHANGED <<site, mergeInProgress>>
    /\ UNCHANGED <<isDryRun, status, didStash, loopVars, observed, stashRet, outcome,
                   stashList, rebaseInProgress, unmerged, written, harnessVars, splitVars>>

\* needsRegenerate looking for the root lock file only.
needsRegenerateRootOnly(resolvedFiles) ==
    \E f \in Range(resolvedFiles) : f = "package-lock.json"

needsRegenerate(resolvedFiles) ==
    \E f \in Range(resolvedFiles) :
        f = "package-lock.json" \/ endsWith(f, "/package-lock.json")

\* regenerateLockFiles: npm install, a failure only warns
RegenerateLockFiles ==
    /\ pc = "regenerate"
    /\ IF needsRegenerate(resolved) /\ ~isDryRun
       THEN \E ok \in BOOLEAN :
            /\ Issue("npm install", NoFile, ok)
            /\ IF ok THEN UNCHANGED warnings ELSE Warn("PULL_REGENERATE_FAILED")
       ELSE UNCHANGED <<cmds, warnings>>
    /\ pc' = "applyStash"
    /\ UNCHANGED <<isDryRun, status, didStash, site, loopVars, observed, stashRet, outcome,
                   repoVars, harnessVars, splitVars>>

\* Step 6: git merge remote/targetBranch
Merge ==
    /\ pc = "merge"
    /\ IF isDryRun
       THEN pc' = "failed" /\ UNCHANGED <<site, cmds, mergeInProgress, unmerged>>
       ELSE \E ok \in BOOLEAN :
            /\ Issue("merge", NoFile, ok)
            /\ site' = "merge"
            /\ IF ok
               THEN pc' = "applyStash" /\ UNCHANGED <<mergeInProgress, unmerged>>
               ELSE /\ pc' = "query"
                    /\ \E left \in FileLists, stopped \in BOOLEAN :
                        /\ unmerged' = left
                        /\ mergeInProgress' = (left # <<>> \/ stopped)
    /\ UNCHANGED <<isDryRun, status, didStash, loopVars, observed, stashRet, outcome,
                   warnings, stashList, rebaseInProgress, written, harnessVars, splitVars>>

\* applyStashIfNeeded(didStash), then the return statement of the call site
ApplyStashIfNeeded ==
    /\ pc = "applyStash"
    /\ \E ok \in BOOLEAN :
        /\ IF ~didStash
           THEN stashRet' = "false" /\ UNCHANGED <<cmds, warnings, stashList>>
           ELSE IF isDryRun
           THEN stashRet' = "true" /\ UNCHANGED <<cmds, warnings, stashList>>
           ELSE /\ Issue("stash pop", NoFile, ok)
                /\ stashRet' = IF ok THEN "true" ELSE "false"
                /\ stashList' = IF ok THEN stashList - 1 ELSE stashList
                /\ IF ok THEN UNCHANGED warnings ELSE Warn("PULL_STASH_CONFLICT")
    /\ outcome' = ResultAfterStash(site, didStash, resolved, stashRet' = "true")
    /\ pc' = "done"
    /\ UNCHANGED <<isDryRun, status, didStash, site, loopVars, observed, rebaseInProgress,
                   mergeInProgress, unmerged, written, harnessVars, splitVars>>

\* FinalFailure popping the stash instead of leaving it in place.
FinalFailureRestoresStash ==
    /\ pc = "failed"
    /\ IF didStash /\ ~isDryRun
       THEN /\ cmds' = Append(cmds, Cmd("stash pop", NoFile, TRUE))
            /\ stashList' = stashList - 1
       ELSE UNCHANGED <<cmds, stashList>>
    /\ outcome' = FailedResult
    /\ pc' = "done"
    /\ UNCHANGED <<isDryRun, status, didStash, site, loopVars, observed, stashRet, warnings,
                   rebaseInProgress, mergeInProgress, unmerged, written, harnessVars, splitVars>>

\* "If we got here, something went wrong": the final return of executePull
FinalFailure ==
    /\ pc = "failed"
    /\ IF didStash THEN Warn("PULL_STASH_PRESERVED") ELSE UNCHANGED warnings
    /\ outcome' = FailedResult
    /\ pc' = "done"
    /\ UNCHANGED <<isDryRun, status, didStash, site, loopVars, observed, stashRet, cmds,
                   repoVars, harnessVars, splitVars>>

Next ==
    \/ GetCurrentBranch
    \/ GetGitStatusSummary
    \/ StashPush
    \/ Fetch
    \/ FastForward
    \/ Rebase
    \/ QueryConflicts
    \/ RebaseAbort
    \/ AutoResolveStart
    \/ ForEachFile
    \/ CheckoutTheirs
    \/ VersionBump
    \/ AddFile
    \/ CheckManual
    \/ RebaseContinue
    \/ MergeCommit
    \/ RegenerateLockFiles
    \/ Merge
    \/ ApplyStashIfNeeded
    \/ FinalFailure

Spec == Init /\ [][Next]_vars

(***************************************************************************)
(* The classifier on its own: canAutoResolve applied to one path.          *)
(***************************************************************************)
\* Deepest directory nesting of the paths classified.
MaxDepth == 1

Dirs == {"dist/", "coverage/", "node_modules/", "src/", "packages/", "a/"}

Names ==
    {"package-lock.json", "yarn.lock", "pnpm-lock.yaml", "package.json",
     "index.js", "index.js.map", "index.d.ts", "app.ts", ".d.ts", "dist"}

RECURSIVE Prefixes(_)
Prefixes(n) ==
    IF n = 0 THEN {""}
    ELSE LET shorter == Prefixes(n - 1)
         IN shorter \cup {p \o d : p \in shorter, d \in Dirs}

Paths == {p \o n : p \in Prefixes(MaxDepth), n \in Names}

ClassifyInit ==
    /\ isDryRun = FALSE
    /\ pc = "classify"
    /\ Idle
    /\ SplitIdle
    /\ cpath \in Paths
    /\ cresult = NotClassified
    /\ vours = NoVersion
    /\ vtheirs = NoVersion
    /\ vresult = NotTried
    /\ vcontent = <<>>

Classify ==
    /\ pc = "classify"
    /\ cresult' = canAutoResolve(cpath)
    /\ pc' = "classified"
    /\ UNCHANGED <<isDryRun, status, didStash, site, loopVars, observed, stashRet, outcome,
                   cmds, warnings, repoVars, cpath, vours, vtheirs, vresult, vcontent,
                   splitVars>>

ClassifyNext == Classify

ClassifySpec == ClassifyInit /\ [][ClassifyNext]_vars

(***************************************************************************)
(* The version-bump heuristic on its own: tryResolvePackageJsonConflict    *)
(* applied to a package.json whose two sides differ in the version line.   *)
(***************************************************************************)
\* Largest major, minor and patch number of the versions tried.
MaxVersion == 1

Versions ==
    {<<major, minor, patch, pre>> :
        major \in 0..MaxVersion, minor \in 0..MaxVersion, patch \in 0..MaxVersion,
        pre \in {"", "beta.1"}}

\* The conflicted package.json git leaves for the two versions.
conflictOf(ours, theirs) ==
    <<Text, StartMarker, VersionLine(ours), Separator, VersionLine(theirs),
      EndMarker, Text>>

VersionInit ==
    /\ isDryRun = FALSE
    /\ pc = "version"
    /\ Idle
    /\ SplitIdle
    /\ cpath = NoFile
    /\ cresult = NotClassified
    /\ vours \in Versions
    /\ vtheirs \in Versions
    /\ vresult = NotTried
    /\ vcontent = <<>>

ResolveVersion ==
    /\ pc = "version"
    /\ vresult' = tryResolvePackageJsonConflict(conflictOf(vours, vtheirs), TRUE)
    /\ pc' = "versioned"
    /\ UNCHANGED <<isDryRun, status, didStash, site, loopVars, observed, stashRet, outcome,
                   cmds, warnings, repoVars, cpath, cresult, vours, vtheirs, vcontent,
                   splitVars>>

VersionNext == ResolveVersion

VersionSpec == VersionInit /\ [][VersionNext]_vars

(***************************************************************************)
(* resolveConflict, case 'version-bump', applied to one package.json text. *)
(***************************************************************************)
\* Largest number of lines of a package.json text.
MaxLines == 5

LineKinds == {Text, StartMarker, Separator, EndMarker, VersionLine(<<1, 2, 0, "">>)}

Texts == SeqsUpTo(LineKinds, MaxLines) \cup {Unreadable}

BumpInit ==
    /\ isDryRun = FALSE
    /\ pc = "bump"
    /\ Idle
    /\ SplitIdle
    /\ cpath = NoFile
    /\ cresult = NotClassified
    /\ vours = NoVersion
    /\ vtheirs = NoVersion
    /\ vresult = NotTried
    /\ vcontent \in Texts

\* const result = await tryResolvePackageJsonConflict(filepath, logger)
BumpResolve ==
    /\ pc = "bump"
    /\ \E writeOk \in BOOLEAN :
        /\ vresult' = tryResolvePackageJsonConflict(vcontent, writeOk)
        /\ written' = IF vresult'.wrote
                      THEN written \cup {[file |-> "package.json", text |-> vresult'.text]}
                      ELSE written
        /\ pc' = IF vresult'.resolved THEN "bumpAdd" ELSE "bumped"
    /\ UNCHANGED <<isDryRun, status, didStash, site, loopVars, observed, stashRet, outcome,
                   cmds, warnings, stashList, rebaseInProgress, mergeInProgress,
                   unmerged, cpath, cresult, vours, vtheirs, vcontent,
                   splitVars>>

\* if (result.resolved) await runSecure('git', ['add', filepath])
BumpAdd ==
    /\ pc = "bumpAdd"
    /\ \E ok \in BOOLEAN : Issue("add", "package.json", ok)
    /\ pc' = "bumped"
    /\ UNCHANGED <<isDryRun, status, didStash, site, loopVars, observed, stashRet, outcome,
                   warnings, repoVars, harnessVars, splitVars>>

BumpNext == BumpResolve \/ BumpAdd

BumpSpec == BumpInit /\ [][BumpNext]_vars

(***************************************************************************)
(* executeSplitCommits (commands/commit): the split commits, one by one,   *)
(* with the interactive review of each.                                    *)
(***************************************************************************)
\* Largest number of splits handed to executeSplitCommits.
MaxSplits == 2

\* Proposed commit messages.
Messages == {"feat: a", "fix: b"}

\* What the user may leave in the editor: a new text, or a proposed one.
Typed == Messages \cup {"docs: edited"}

CommitSplits == {[message |-> m, files |-> <<"a.ts">>] : m \in Messages}

SplitInit ==
    /\ isDryRun \in BOOLEAN
    /\ pc = "splitLoop"
    /\ Idle
    /\ HarnessIdle
    /\ splits \in SeqsUpTo(CommitSplits, MaxSplits)
    /\ interactive \in BOOLEAN
    /\ splitIndex = 1
    /\ commitMessage = ""
    /\ review = NoReview
    /\ splitResult = EmptyResult
    /\ answers = <<>>
    /\ gitCommits = <<>>

split == splits[splitIndex]

\* reviewSplitInteractively: the value returned for the key the user pressed
reviewSplitInteractively(s, choice, edited) ==
    IF choice = "e" THEN [action |-> "commit", modifiedMessage |-> edited]
    ELSE IF choice = "c" THEN [action |-> "commit", modifiedMessage |-> ""]
    ELSE IF choice = "s" THEN [action |-> "skip", modifiedMessage |-> ""]
    ELSE [action |-> "stop", modifiedMessage |-> ""]

\* for (...): let commitMessage = split.message, and the interactive review
ReviewSplit ==
    /\ pc = "splitLoop"
    /\ splitIndex <= Len(splits)
    /\ IF interactive /\ ~isDryRun
       THEN \E choice \in {"c", "e", "s", "t"}, edited \in Typed :
            /\ answers' = Append(answers, [choice |-> choice,
                                           edited |-> IF choice = "e" THEN edited ELSE ""])
            /\ review' = reviewSplitInteractively(split, choice, edited)
            /\ IF review'.action = "stop"
               THEN /\ splitResult' = [splitResult EXCEPT !.success = FALSE]
                    /\ pc' = "splitDone"
                    /\ UNCHANGED <<splitIndex, commitMessage>>
               ELSE IF review'.action = "skip"
               THEN /\ splitResult' = [splitResult EXCEPT !.skipped = @ + 1]
                    /\ splitIndex' = splitIndex + 1
                    /\ pc' = "splitLoop"
                    /\ UNCHANGED commitMessage
               ELSE /\ commitMessage' = IF review'.action = "edit"
                                        THEN review'.modifiedMessage
                                        ELSE split.message
                    /\ pc' = "splitCommit"
                    /\ UNCHANGED <<splitIndex, splitResult>>
       ELSE /\ answers' = Append(answers, [choice |-> "none", edited |-> ""])
            /\ commitMessage' = split.message
            /\ pc' = "splitCommit"
            /\ UNCHANGED <<review, splitIndex, splitResult>>
    /\ UNCHANGED <<isDryRun, status, didStash, site, loopVars, observed, stashRet,
                   outcome, cmds, warnings, repoVars, harnessVars, splits,
                   interactive, gitCommits>>

\* unstageAll, createSingleSplitCommit and result.commits.push; a rejection of
\* any of them ends executeSplitCommits with result.error
CreateSingleSplitCommit ==
    /\ pc = "splitCommit"
    /\ \E ok \in BOOLEAN :
        IF isDryRun \/ ok
        THEN /\ gitCommits' = IF isDryRun THEN gitCommits
                              ELSE Append(gitCommits, [split |-> splitIndex,
                                                       message |-> commitMessage])
             /\ splitResult' =
                    [splitResult EXCEPT
                        !.commits = Append(@, [message |-> commitMessage,
                                               files |-> split.files]),
                        !.commitsCreated = @ + 1]
             /\ splitIndex' = splitIndex + 1
             /\ pc' = "splitLoop"
        ELSE /\ splitResult' = [splitResult EXCEPT !.success = FALSE, !.error = TRUE]
             /\ pc' = "splitDone"
             /\ UNCHANGED <<gitCommits, splitIndex>>
    /\ UNCHANGED <<isDryRun, status, didStash, site, loopVars, observed, stashRet,
                   outcome, cmds, warnings, repoVars, harnessVars, splits,
                   interactive, commitMessage, review, answers>>

\* result.success = true; return result
SplitCommitsReturn ==
    /\ pc = "splitLoop"
    /\ splitIndex > Len(splits)
    /\ splitResult' = [splitResult EXCEPT !.success = TRUE]
    /\ pc' = "splitDone"
    /\ UNCHANGED <<isDryRun, status, didStash, site, loopVars, observed, stashRet,
                   outcome, cmds, warnings, repoVars, harnessVars, splits,
                   interactive, splitIndex, commitMessage, review, answers,
                   gitCommits>>

SplitNext == ReviewSplit \/ CreateSingleSplitCommit \/ SplitCommitsReturn

SplitSpec == SplitInit /\ [][SplitNext]_vars

(***************************************************************************)
(* Properties.                                                             *)
(***************************************************************************)
Returned == pc = "done"

Indices == 1..Len(cmds)

Issued(c) == \E i \in Indices : cmds[i].cmd = c

Succeeded(c) == \E i \in Indices : cmds[i].cmd = c /\ cmds[i].ok

Failed(c) == \E i \in Indices : cmds[i].cmd = c /\ ~cmds[i].ok

Count(c) == Cardinality({i \in Indices : cmds[i].cmd = c})

StashCreated == Succeeded("stash push")

\* C1: every returned PullResult with a non-empty manualRequired has
\* success = false and stashApplied = false, on the rebase and the merge branch.
C1_ManualRequiredInvariant ==
    (Returned /\ outcome.manualRequired # <<>>)
        => (~outcome.success /\ ~outcome.stashApplied)

C1_Witness ==
    /\ Returned
    /\ outcome.manualRequired # <<>>
    /\ outcome.strategy = "rebase"
    /\ StashCreated

\* C2: the strategy commands come in the order fetch, merge --ff-only, rebase,
\* merge: merge --ff-only only after a successful fetch, rebase only after
\* merge --ff-only failed, merge only after rebase failed, each at most once, and
\* after a successful merge --ff-only no rebase and no merge at all.
C2_CascadeOrder ==
    /\ \A i \in Indices :
        /\ cmds[i].cmd = "merge --ff-only"
            => \E j \in 1..(i - 1) : cmds[j].cmd = "fetch" /\ cmds[j].ok
        /\ cmds[i].cmd = "rebase"
            => \E j \in 1..(i - 1) : cmds[j].cmd = "merge --ff-only" /\ ~cmds[j].ok
        /\ cmds[i].cmd = "merge"
            => \E j \in 1..(i - 1) : cmds[j].cmd = "rebase" /\ ~cmds[j].ok
    /\ \A c \in {"fetch", "merge --ff-only", "rebase", "merge"} : Count(c) <= 1
    /\ Succeeded("merge --ff-only") => ~Issued("rebase") /\ ~Issued("merge")

C2_Witness ==
    /\ Returned
    /\ Succeeded("fetch")
    /\ Failed("merge --ff-only")
    /\ Failed("rebase")
    /\ Succeeded("merge")

\* Index of the last unmerged-file query, the one autoResolveConflicts made.
LastQuery == CHOOSE i \in Indices : cmds[i].cmd = "diff" /\ \A j \in Indices : cmds[j].cmd = "diff" => j <= i

\* C3: when auto-resolution leaves a file for manual resolution, executePull
\* returns success = false, hadConflicts = true and the manual files, every
\* command after the resolution's query is a checkout or an add of the
\* resolution itself (no stash pop, rebase --continue, rebase --abort, merge or
\* commit), the stash is still stashed and the rebase or merge still in progress.
C3_PausedForManual ==
    (Returned /\ outcome.manualRequired # <<>>) =>
        /\ ~outcome.success
        /\ outcome.hadConflicts
        /\ outcome.manualRequired = manual
        /\ \A k \in Indices :
            k > LastQuery => cmds[k].cmd \in {"checkout --theirs", "add"}
        /\ ~Issued("stash pop")
        /\ StashCreated => stashList = 1
        /\ outcome.strategy = "rebase" => rebaseInProgress
        /\ outcome.strategy = "merge" => mergeInProgress

C3_Witness ==
    /\ Returned
    /\ outcome.manualRequired # <<>>
    /\ outcome.autoResolved # <<>>
    /\ outcome.strategy = "merge"
    /\ stashList = 1

\* C4 as stated: a stash pop is issued only on a path that ends with
\* success = true, and when fetch fails after a stash was created no stash pop
\* is issued and the entry is still on the stash list at the return.
C4_PopOnlyOnSuccess ==
    Returned =>
        /\ Issued("stash pop") => outcome.success
        /\ (Failed("fetch") /\ StashCreated)
            => (~Issued("stash pop") /\ stashList = 1)

\* C4, amended: a stash pop is issued only on a path that ends with
\* success = true or on the path where fetch failed; when fetch fails after a
\* stash was created exactly one stash pop is issued, and the entry is still on
\* the stash list at the return exactly when that pop failed.
C4_PopOnSuccessOrFetchFailure ==
    Returned =>
        /\ Issued("stash pop") => (outcome.success \/ Failed("fetch"))
        /\ (Failed("fetch") /\ StashCreated)
            => /\ Count("stash pop") = 1
               /\ (stashList = 1) <=> Failed("stash pop")

C4_Witness ==
    /\ Returned
    /\ Failed("fetch")
    /\ StashCreated
    /\ Succeeded("stash pop")
    /\ stashList = 0

\* C5 as stated: executePull never raises, whichever command fails.
C5_NeverRaises == pc # "raised"

\* C6 as stated: a returned stashApplied = true means that a stash was created
\* and that a stash pop was issued and succeeded.
C6_StashAppliedMeansPopped ==
    (Returned /\ outcome.stashApplied)
        => (StashCreated /\ Succeeded("stash pop"))

\* C7: when stash pop fails, applyStashIfNeeded returns false and executePull
\* still returns; the failed pop is the only pop and the last command of the
\* invocation, and success and strategy of the outcome are those of the same
\* return site with a successful pop.
C7_PopFailureIsOnlyAWarning ==
    \A i \in Indices :
        (cmds[i].cmd = "stash pop" /\ ~cmds[i].ok) =>
            /\ Returned
            /\ stashRet = "false"
            /\ i = Len(cmds)
            /\ Count("stash pop") = 1
            /\ outcome.success = ResultAfterStash(site, didStash, resolved, TRUE).success
            /\ outcome.strategy = ResultAfterStash(site, didStash, resolved, TRUE).strategy

C7_Witness ==
    /\ Returned
    /\ Failed("stash pop")
    /\ outcome.success
    /\ outcome.strategy = "rebase"
    /\ outcome.hadConflicts

\* C8: when fetch fails, no merge --ff-only, rebase or merge is issued, the
\* outcome is success = false with strategy = failed, and one stash pop is
\* issued when a stash was created and none otherwise.
C8_FetchFailure ==
    Failed("fetch") =>
        /\ ~Issued("merge --ff-only") /\ ~Issued("rebase") /\ ~Issued("merge")
        /\ Returned =>
            /\ ~outcome.success
            /\ outcome.strategy = "failed"
            /\ Count("stash pop") = IF StashCreated THEN 1 ELSE 0

C8_Witness ==
    /\ Returned
    /\ Failed("fetch")
    /\ StashCreated
    /\ Count("stash pop") = 1
    /\ outcome.strategy = "failed"

\* The last component of path p is name.
lastComponentIs(p, name) == p = name \/ endsWith(p, "/" \o name)

isLockFile(p) ==
    \E name \in {"package-lock.json", "yarn.lock", "pnpm-lock.yaml"} :
        lastComponentIs(p, name)

\* C9 as stated: every path whose last component is package-lock.json,
\* yarn.lock or pnpm-lock.yaml, in any directory, classifies as regenerate-lock.
C9_LockFilesAnywhere ==
    (pc = "classified" /\ isLockFile(cpath))
        => cresult.strategy = "regenerate-lock"

matchesRule(p, n) ==
    CASE n = 1 -> p = "package-lock.json"
      [] n = 2 -> p = "yarn.lock"
      [] n = 3 -> p = "pnpm-lock.yaml"
      [] n = 4 -> startsWith(p, "dist/")
      [] n = 5 -> startsWith(p, "coverage/")
      [] n = 6 -> startsWith(p, "node_modules/")
      [] n = 7 -> endsWith(p, ".js.map") \/ endsWith(p, ".d.ts")

ruleStrategy(n) ==
    CASE n \in {1, 2, 3} -> "regenerate-lock"
      [] n \in {4, 7} -> "take-theirs-regenerate"
      [] n \in {5, 6} -> "take-theirs"

RuleNumbers == 1..7

\* C12: canAutoResolve answers for every path; the answer is manual with
\* canResolve = false exactly when the path matches none of the seven patterns,
\* and otherwise canResolve = true with the strategy of the first pattern, in
\* rule order, that the path matches.
C12_FirstMatchWins ==
    pc = "classified" =>
        LET matching == {n \in RuleNumbers : matchesRule(cpath, n)}
        IN /\ cresult.canResolve \in BOOLEAN
           /\ (cresult.strategy = "manual") <=> (matching = {})
           /\ cresult.canResolve <=> (matching # {})
           /\ \A n \in matching :
                (\A m \in matching : n <= m) => cresult.strategy = ruleStrategy(n)

C12_Witness ==
    /\ pc = "classified"
    /\ matchesRule(cpath, 4)
    /\ matchesRule(cpath, 7)
    /\ cresult.strategy = "take-theirs-regenerate"

\* Semantic-version precedence: a is lower than b.  A version with a
\* prerelease is lower than the same version without one.
lowerThan(a, b) ==
    \/ a[1] < b[1]
    \/ a[1] = b[1] /\ a[2] < b[2]
    \/ a[1] = b[1] /\ a[2] = b[2] /\ a[3] < b[3]
    \/ a[1] = b[1] /\ a[2] = b[2] /\ a[3] = b[3] /\ a[4] # "" /\ b[4] = ""

\* The version the resolved package.json carries.
selectedVersion == versionPattern(vresult.text).version

\* C13 as stated: the version selected is ours exactly when ours without its
\* prerelease is strictly greater than theirs without its prerelease, theirs
\* otherwise, and it is never lower than the version of either side.
C13_SelectsHigherVersion ==
    (pc = "versioned" /\ vresult.resolved) =>
        /\ selectedVersion =
             IF gt(<<vours[1], vours[2], vours[3], "">>,
                   <<vtheirs[1], vtheirs[2], vtheirs[3], "">>)
             THEN vours ELSE vtheirs
        /\ ~lowerThan(selectedVersion, vours)
        /\ ~lowerThan(selectedVersion, vtheirs)

isPackageLock(f) == lastComponentIs(f, "package-lock.json")

RECURSIVE Filter(_, _)
Filter(q, S) ==
    IF q = <<>> THEN <<>>
    ELSE IF Head(q) \in S THEN <<Head(q)>> \o Filter(Tail(q), S)
    ELSE Filter(Tail(q), S)

\* The files of the listing the loop of autoResolveConflicts has dealt with.
handled == SubSeq(conflictedFiles, 1, fileIdx - 1)

C16_ContinueFailureIsFinal ==
    \A i \in Indices :
        (/\ cmds[i].cmd = "rebase --continue" /\ ~cmds[i].ok
         /\ \E j \in 1..(i - 1) : cmds[j].cmd = "add" /\ cmds[j].ok) =>
            /\ \A k \in Indices :
                k > i => cmds[k].cmd \notin {"merge --ff-only", "rebase",
                                            "rebase --continue", "rebase --abort",
                                            "merge"}
            /\ Returned => (outcome.strategy = "failed" /\ ~outcome.success)

\* The files staged by a successful add after the last unmerged-file query.
addedSinceQuery ==
    LET adds == SelectSeq(SubSeq(cmds, LastQuery + 1, Len(cmds)),
                          LAMBDA c : c.cmd = "add" /\ c.ok)
    IN [k \in 1..Len(adds) |-> adds[k].file]

\* C17: after a successful rebase --continue (or merge commit) only the lock
\* file regeneration and then the stash restore follow, each at most once and
\* in that order, the stash is popped exactly when one was created, and the
\* outcome is success = true, hadConflicts = true, manualRequired empty,
\* autoResolved the files resolved, strategy rebase (or merge).
C17_ResolvedCompletion ==
    \A i \in Indices :
        (cmds[i].cmd \in {"rebase --continue", "commit"} /\ cmds[i].ok) =>
            /\ \A k \in Indices : k > i => cmds[k].cmd \in {"npm install", "stash pop"}
            /\ \A k, l \in Indices :
                (k > i /\ l > k) => ~(cmds[k].cmd = "stash pop" /\ cmds[l].cmd = "npm install")
            /\ Count("npm install") <= 1
            /\ Count("stash pop") <= 1
            /\ Returned =>
                /\ Issued("stash pop") <=> StashCreated
                /\ outcome.success
                /\ outcome.hadConflicts
                /\ outcome.manualRequired = <<>>
                /\ outcome.autoResolved = resolved
                /\ outcome.autoResolved = addedSinceQuery
                /\ outcome.strategy =
                     IF cmds[i].cmd = "rebase --continue" THEN "rebase" ELSE "merge"

C17_Witness ==
    /\ Returned
    /\ Succeeded("rebase --continue")
    /\ Issued("npm install")
    /\ Succeeded("stash pop")
    /\ outcome.autoResolved # <<>>

\* C18: when rebase fails and the unmerged-file query that follows returns no
\* file, rebase --abort is issued next and, whether it succeeds or fails, the
\* plain merge right after it; both are issued once.
C18_AbortThenMerge ==
    /\ (site = "rebase" /\ Failed("rebase") /\ Issued("diff") /\ observed = <<>>)
        => (pc = "abort" \/ (Issued("rebase --abort") /\ pc = "merge"))
    /\ \A i \in Indices :
        cmds[i].cmd = "rebase --abort" =>
            /\ i >= 3
            /\ cmds[i - 1].cmd = "diff"
            /\ cmds[i - 2].cmd = "rebase" /\ ~cmds[i - 2].ok
            /\ Count("rebase --abort") = 1
            /\ IF i = Len(cmds) THEN pc = "merge" /\ ~Issued("merge")
               ELSE cmds[i + 1].cmd = "merge" /\ Count("merge") = 1

C18_Witness ==
    /\ Returned
    /\ Failed("rebase --abort")
    /\ Succeeded("merge")
    /\ rebaseInProgress


\* C19: when executePull returns strategy failed although the fetch did not
\* fail, it returns success = false, stashApplied = false and empty conflict
\* lists, has issued no stash pop or drop, and has emitted the
\* PULL_STASH_PRESERVED warning exactly when a stash entry was created.
C19_FinalFailure ==
    (Returned /\ outcome.strategy = "failed" /\ ~Failed("fetch")) =>
        /\ ~outcome.success
        /\ ~outcome.hadConflicts
        /\ ~outcome.stashApplied
        /\ ~Issued("stash pop")
        /\ ~Issued("stash drop")
        /\ ("PULL_STASH_PRESERVED" \in warnings) <=> StashCreated


\* stashIfNeeded has returned to executePull.
StashDecided == Succeeded("status") /\ pc \notin {"stashPush", "raised"}

\* The status inspector reported staged or unstaged modifications.
Modified == status.hasUncommittedChanges \/ status.hasUnstagedFiles

\* Every stash push in the log precedes every fetch.
PushBeforeFetch ==
    \A i, j \in Indices :
        (cmds[i].cmd = "stash push" /\ cmds[j].cmd = "fetch") => i < j

\* C20 as stated: stashIfNeeded returns true exactly when it created a stash
\* entry; it issues one stash push when the status inspector reports staged or
\* unstaged modifications and none otherwise, and the push precedes the fetch.
C20_TrueIffStashCreated ==
    StashDecided =>
        /\ didStash <=> StashCreated
        /\ Count("stash push") = IF Modified THEN 1 ELSE 0
        /\ PushBeforeFetch

\* C20, amended: outside dry-run stashIfNeeded returns true exactly when it
\* created a stash entry, issuing one stash push when the status inspector
\* reports staged or unstaged modifications and none otherwise, before the
\* fetch; in dry-run it issues no stash push and returns true exactly when
\* the status inspector reports modifications.
C20_StashIfNeeded ==
    /\ StashDecided =>
        /\ didStash <=> Modified
        /\ ~isDryRun => (didStash <=> StashCreated)
    /\ (Succeeded("status") /\ pc # "stashPush") =>
        Count("stash push") = IF Modified /\ ~isDryRun THEN 1 ELSE 0
    /\ ~Succeeded("status") => ~Issued("stash push")
    /\ PushBeforeFetch

C20_Witness ==
    /\ ~isDryRun
    /\ Returned
    /\ status.hasUnstagedFiles /\ ~status.hasUncommittedChanges
    /\ didStash /\ StashCreated
    /\ Issued("fetch")

\* C21: every conflicted file named package.json, or ending in /package.json,
\* that autoResolveConflicts has passed is handed to resolveConflict with the
\* version-bump strategy, whatever canAutoResolve returns for it, and no
\* checkout --theirs is ever issued for such a file.
C21_PackageJsonVersionBump ==
    /\ \A k \in 1..Len(attempts) :
        isPackageJson(attempts[k].file) => attempts[k].strategy = "version-bump"
    /\ \A i \in Indices :
        cmds[i].cmd = "checkout --theirs" => ~isPackageJson(cmds[i].file)
    /\ \A k \in 1..Len(conflictedFiles) :
        (k < fileIdx /\ isPackageJson(conflictedFiles[k])) =>
            \E n \in 1..Len(attempts) :
                attempts[n] = [file |-> conflictedFiles[k], strategy |-> "version-bump"]

C21_Witness ==
    /\ Returned
    /\ ~isDryRun
    /\ canAutoResolve("dist/package.json").strategy = "take-theirs-regenerate"
    /\ \E n \in 1..Len(attempts) :
        attempts[n] = [file |-> "dist/package.json", strategy |-> "version-bump"]
    /\ "dist/package.json" \in Range(outcome.autoResolved)
    /\ \E w \in written : w.file = "dist/package.json"

\* The strategies that accept the remote version of the file.
TheirsStrategies == {"regenerate-lock", "take-theirs", "take-theirs-regenerate"}

\* The file resolveConflict is working on, when it is between two sub-steps.
InResolveConflict(f, at) == pc = at /\ fileIdx <= Len(conflictedFiles) /\ file = f

\* C22: for regenerate-lock, take-theirs and take-theirs-regenerate,
\* resolveConflict issues checkout --theirs and then add for the file. The file
\* is reported resolved only if both succeeded; when either fails nothing more
\* is issued for the file and it is in the manual list.
C22_TakeTheirs ==
    /\ \A k \in 1..Len(attempts) :
        attempts[k].strategy \in TheirsStrategies =>
            \/ \E i \in Indices :
                cmds[i].cmd = "checkout --theirs" /\ cmds[i].file = attempts[k].file
            \/ k = Len(attempts) /\ InResolveConflict(attempts[k].file, "checkout")
    /\ \A i \in Indices :
        LET f == cmds[i].file IN
        /\ (cmds[i].cmd = "checkout --theirs" /\ cmds[i].ok) =>
            IF i = Len(cmds) THEN InResolveConflict(f, "add")
            ELSE cmds[i + 1].cmd = "add" /\ cmds[i + 1].file = f
        /\ (cmds[i].cmd = "checkout --theirs" /\ ~cmds[i].ok) =>
            /\ f \in Range(manual)
            /\ f \notin Range(resolved)
            /\ \A j \in Indices : (j > i /\ cmds[j].file = f) => FALSE
        /\ (cmds[i].cmd = "add" /\ ~isPackageJson(f)) =>
            /\ i > 1
            /\ cmds[i - 1] = Cmd("checkout --theirs", f, TRUE)
            /\ ~cmds[i].ok =>
                /\ f \in Range(manual)
                /\ f \notin Range(resolved)
                /\ \A j \in Indices : (j > i /\ cmds[j].file = f) => FALSE
    /\ \A f \in Range(resolved) :
        ~isPackageJson(f) =>
            \E i \in Indices :
                /\ i < Len(cmds)
                /\ cmds[i] = Cmd("checkout --theirs", f, TRUE)
                /\ cmds[i + 1] = Cmd("add", f, TRUE)

C22_Witness ==
    /\ Returned
    /\ \E i \in Indices : cmds[i] = Cmd("checkout --theirs", "dist/index.js", TRUE)
    /\ \E i \in Indices : cmds[i] = Cmd("add", "dist/index.js", FALSE)
    /\ \E i \in Indices : cmds[i] = Cmd("checkout --theirs", "package-lock.json", FALSE)
    /\ outcome.manualRequired = <<"dist/index.js", "package-lock.json">>

\* The text has no line of the given kind.
lacks(content, kind) == \A i \in 1..Len(content) : content[i].kind # kind

\* The lines between the first line of kind open and the first line of kind
\* close after it, when there is such a pair.
regionBetween(content, open, close) ==
    LET pairs == {p \in (1..Len(content)) \X (1..Len(content)) :
                    /\ p[1] < p[2]
                    /\ content[p[1]].kind = open
                    /\ content[p[2]].kind = close
                    /\ \A n \in 1..(p[1] - 1) : content[n].kind # open
                    /\ \A n \in (p[1] + 1)..(p[2] - 1) : content[n].kind # close}
    IN IF pairs = {} THEN [found |-> FALSE, lines |-> <<>>]
       ELSE LET p == CHOOSE q \in pairs : TRUE
            IN [found |-> TRUE, lines |-> SubSeq(content, p[1] + 1, p[2] - 1)]

\* The version-bump resolution cannot work on this text.
ExtractionFails(content) ==
    LET ours == regionBetween(content, "start", "sep")
        theirs == regionBetween(content, "sep", "end")
    IN \/ lacks(content, "start")
       \/ lacks(content, "end")
       \/ ~ours.found
       \/ ~theirs.found
       \/ lacks(ours.lines, "version")
       \/ lacks(theirs.lines, "version")

\* C23: when the package.json text lacks a conflict-start or a conflict-end
\* marker, or a region cannot be extracted, or either region has no version
\* field, the version-bump resolution reports resolved = false with a reason,
\* writes nothing and stages nothing.
C23_FailedExtraction ==
    (pc \in {"bumpAdd", "bumped"} /\ ExtractionFails(vcontent)) =>
        /\ pc = "bumped"
        /\ ~vresult.resolved
        /\ vresult.error # ""
        /\ ~vresult.wrote
        /\ written = {}
        /\ cmds = <<>>

C23_Witness ==
    /\ pc = "bumped"
    /\ ~lacks(vcontent, "start") /\ ~lacks(vcontent, "end")
    /\ regionBetween(vcontent, "start", "sep") =
            [found |-> TRUE, lines |-> <<VersionLine(<<1, 2, 0, "">>)>>]
    /\ regionBetween(vcontent, "sep", "end") = [found |-> TRUE, lines |-> <<Text>>]
    /\ vresult.error = "Complex conflict - not just version"
    /\ written = {}

\* The command is a sub-step of resolveConflict on a file.
ResolutionStep(c) == c.cmd \in {"checkout --theirs", "add"}

\* C24: the unmerged-file list is queried again after every resolution
\* attempt: between the resolution steps of two different files the log holds
\* a query of the unmerged files, so no file is handled from a list obtained
\* before an earlier file was resolved.
C24_RequeriedAfterEveryAttempt ==
    \A i, j \in Indices :
        (/\ i < j
         /\ ResolutionStep(cmds[i]) /\ ResolutionStep(cmds[j])
         /\ cmds[i].file # cmds[j].file) =>
            \E k \in (i + 1)..(j - 1) : cmds[k].cmd = "diff"

\* C25: git merge is never issued while a rebase is in progress: when
\* executePull is about to issue the merge, and right after it has, the
\* repository has no rebase stopped half-way.
C25_NoMergeDuringRebase ==
    /\ (pc = "merge" /\ ~isDryRun) => ~rebaseInProgress
    /\ (cmds # <<>> /\ cmds[Len(cmds)].cmd = "merge") => ~rebaseInProgress

\* executePull saw a non-empty unmerged list: it went on to autoResolveConflicts,
\* whose own query follows the one of executePull.
ConflictsObserved ==
    \/ pc = "autoResolve"
    \/ \E i \in Indices :
        i < Len(cmds) /\ cmds[i].cmd = "diff" /\ cmds[i + 1].cmd = "diff"

\* C26: a returned result has hadConflicts = false and an empty autoResolved
\* only if no unmerged file was observed and no file was checked out or staged
\* during the invocation, also when rebase --continue or the merge commit
\* failed after the auto-resolution.
C26_NoConflictsReportedMeansNone ==
    (Returned /\ ~outcome.hadConflicts /\ outcome.autoResolved = <<>>) =>
        /\ ~ConflictsObserved
        /\ ~Issued("checkout --theirs")
        /\ ~Issued("add")

\* C27: every returned result is consistent: success implies a strategy of
\* fast-forward, rebase or merge and an empty manualRequired; strategy failed
\* implies success = false, hadConflicts = false and both lists empty;
\* hadConflicts implies a non-empty autoResolved or manualRequired;
\* stashApplied implies an empty manualRequired.
C27_OutcomeConsistent ==
    Returned =>
        /\ outcome.success =>
            /\ outcome.strategy \in {"fast-forward", "rebase", "merge"}
            /\ outcome.manualRequired = <<>>
        /\ outcome.strategy = "failed" =>
            /\ ~outcome.success
            /\ ~outcome.hadConflicts
            /\ outcome.autoResolved = <<>>
            /\ outcome.manualRequired = <<>>
        /\ outcome.hadConflicts =>
            (outcome.autoResolved # <<>> \/ outcome.manualRequired # <<>>)
        /\ outcome.stashApplied => outcome.manualRequired = <<>>

\* The commands that change the repository or the working tree.
StateChanging ==
    {"stash push", "fetch", "merge --ff-only", "merge", "rebase", "rebase --continue",
     "rebase --abort", "checkout --theirs", "add", "commit", "stash pop", "npm install"}

\* C28: in dry-run executePull issues no state-changing command, whatever the
\* status inspector reports, writes no file, and every result it returns has
\* success = false and strategy = failed.
C28_DryRunIsInert ==
    isDryRun =>
        /\ \A i \in Indices : cmds[i].cmd \notin StateChanging
        /\ written = {}
        /\ stashList = 0 /\ ~rebaseInProgress /\ ~mergeInProgress
        /\ Returned => (~outcome.success /\ outcome.strategy = "failed")

C28_Witness ==
    /\ isDryRun
    /\ Returned
    /\ status.hasUncommittedChanges /\ status.hasUnstagedFiles
    /\ didStash
    /\ outcome.strategy = "failed"
    /\ Len(cmds) = 2

\* C29: when the unmerged query that follows a failed rebase or a failed merge
\* itself fails, no file is classified or resolved on its account: after the
\* rebase the next commands are rebase --abort and then merge, and after the
\* merge nothing more is issued and the result returned is strategy failed
\* with hadConflicts = false.
C29_FailedQueryMeansNoConflicts ==
    \A i \in Indices :
        (i > 1 /\ cmds[i].cmd = "diff" /\ ~cmds[i].ok /\ ~cmds[i - 1].ok) =>
            /\ cmds[i - 1].cmd = "rebase" =>
                /\ IF i = Len(cmds) THEN pc = "abort"
                   ELSE cmds[i + 1].cmd = "rebase --abort"
                /\ i + 1 = Len(cmds) => pc = "merge"
                /\ i + 1 < Len(cmds) => cmds[i + 2].cmd = "merge"
            /\ cmds[i - 1].cmd = "merge" =>
                /\ i = Len(cmds)
                /\ pc \in {"failed", "done"}
                /\ Returned =>
                    /\ outcome.strategy = "failed"
                    /\ ~outcome.success
                    /\ ~outcome.hadConflicts
                    /\ outcome.autoResolved = <<>>
                    /\ outcome.manualRequired = <<>>

C29_Witness ==
    /\ Returned
    /\ attempts = <<>>
    /\ unmerged # <<>>
    /\ \E i \in Indices :
        /\ i + 4 = Len(cmds)
        /\ cmds[i] = Cmd("rebase", NoFile, FALSE)
        /\ cmds[i + 1] = Cmd("diff", NoFile, FALSE)
        /\ cmds[i + 2].cmd = "rebase --abort"
        /\ cmds[i + 3] = Cmd("merge", NoFile, FALSE)
        /\ cmds[i + 4] = Cmd("diff", NoFile, FALSE)
    /\ outcome.strategy = "failed"

\* C30: in the interactive review, when the user chooses "Edit message before
\* committing" for a split, the commit created for that split carries the
\* message the user left in the editor.
C30_EditedMessageIsCommitted ==
    \A k \in 1..Len(gitCommits) :
        LET n == gitCommits[k].split
        IN answers[n].choice = "e" => gitCommits[k].message = answers[n].edited

====
